---- MODULE Spec2Model ----
(***************************************************************************)
(* Model of Confluence.get_pdf_download_url_for_confluence_cloud           *)
(* (src/atlassian/confluence.py, lines 1199-1245): the poller that starts  *)
(* a PDF export, reads the task id out of the initiating page and polls    *)
(* runningtaskxml.action until the export is complete.                     *)
(*                                                                         *)
(* Text is a sequence of tokens.  A token stands for a fixed piece of     *)
(* text that the code's separators cannot cut in two:                      *)
(*   "href="  "&quot"  ";/wiki/"   the pieces of the marker                *)
(*                                 'href=&quot;/wiki/' (the terminator     *)
(*                                 '&quot' is one of them),                *)
(*   "name=_ajs-taskId_content="  "DQ"  ">"                                *)
(*                                 the pieces of 'name="ajs-taskId"        *)
(*                                 content="' and of '">' ("DQ" is the     *)
(*                                 double quote they share),               *)
(*   "LF" "SP" "CR"                newline, blank, carriage return,        *)
(*   "0xFF"                        a byte that is not valid UTF-8,         *)
(*   anything else                 a run of ordinary characters.           *)
(* A Python value that may be None is a sequence of length 0 (None) or 1.  *)
(***************************************************************************)
EXTENDS Integers, Sequences, FiniteSets, TLC

(* ---------------------------- bounds ----------------------------------- *)
\* most poll requests one invocation is followed for
MaxPolls == 3
\* most pieces an initiating page is put together from
MaxInitPieces == 3
\* most pieces the status line of a finished export is put together from
MaxLinePieces == 3

(* ------------------------ Python helpers ------------------------------- *)
None == <<>>

Some(v) == <<v>>

\* s[i:] starts with sep (i is 1-based)
MatchesAt(s, sep, i) ==
    /\ i + Len(sep) - 1 <= Len(s)
    /\ \A k \in 1..Len(sep) : s[i + k - 1] = sep[k]

\* str.find from position i: the least position >= i where sep occurs, 0 if none
FindFrom(s, sep, i) ==
    LET hits == {j \in i..Len(s) : MatchesAt(s, sep, j)}
    IN  IF hits = {} THEN 0 ELSE CHOOSE j \in hits : \A h \in hits : j <= h

RECURSIVE Split(_, _)
\* str.split(sep) for a non-empty sep: leftmost non-overlapping occurrences
Split(s, sep) ==
    LET i == FindFrom(s, sep, 1)
    IN  IF i = 0
        THEN <<s>>
        ELSE <<SubSeq(s, 1, i - 1)>> \o Split(SubSeq(s, i + Len(sep), Len(s)), sep)

Whitespace == {"SP", "CR", "LF"}

RECURSIVE Strip(_)
\* str.strip(): drops leading and trailing whitespace
Strip(s) ==
    IF s = <<>> THEN s
    ELSE IF Head(s) \in Whitespace THEN Strip(Tail(s))
    ELSE IF s[Len(s)] \in Whitespace THEN Strip(SubSeq(s, 1, Len(s) - 1))
    ELSE s

\* bytes.decode(encoding='utf-8', errors='strict') succeeds
DecodesStrict(bytes) == \A i \in 1..Len(bytes) : bytes[i] # "0xFF"

\* parts[idx] (0-based) raises IndexError
IndexOutOfRange(parts, idx) == idx >= Len(parts)

\* parts[idx] (0-based)
Item(parts, idx) == parts[idx + 1]

(* ------------------- constants of the poller --------------------------- *)
\* 'name="ajs-taskId" content="' and '">'
TaskIdMarker == <<"name=_ajs-taskId_content=", "DQ">>

TaskIdEnd == <<"DQ", ">">>

\* 'runningtaskxml.action?taskId={0}'
PollUrlPrefix == <<"runningtaskxml.action?taskId=">>

\* 'href=&quot;/wiki/' and '&quot'
HrefMarker == <<"href=", "&quot", ";/wiki/">>

Quot == <<"&quot">>

CompleteTrue == <<"<isComplete>true</isComplete>">>

SuccessTrue == <<"<isSuccessful>true</isSuccessful>">>

SuccessFalse == <<"<isSuccessful>false</isSuccessful>">>

NotSuccessfulMsg == "PDF conversion not successful."

\* indices (0-based) into the status document split on newline
StatusIdx == 3
PercentIdx == 6
SuccessIdx == 7
CompleteIdx == 8

\* time.sleep(5)
SleepSeconds == 5

\* the url argument and self.form_token_headers
ExportUrl == <<"spaces/flyingpdf/pdfpageexport.action?pageId=1">>

FormTokenHeaders == "form_token_headers"

(* ----------------------- the poller's parsing -------------------------- *)
\* response_string.split('name="ajs-taskId" content="')[1] raises IndexError
TaskIdMissing(response_string) ==
    IndexOutOfRange(Split(response_string, TaskIdMarker), 1)

\* the extraction without the cut at '">'
TaskIdUncut(response_string) == Item(Split(response_string, TaskIdMarker), 1)

\* response_string.split('name="ajs-taskId" content="')[1].split('">')[0]
TaskIdOf(response_string) ==
    Item(Split(Item(Split(response_string, TaskIdMarker), 1), TaskIdEnd), 0)

\* 'runningtaskxml.action?taskId={0}'.format(task_id)
PollUrlOf(id) == PollUrlPrefix \o id

\* long_running_task_response.decode(...).split('\n')
ResponseParts(text) == Split(text, <<"LF">>)

\* one of parts[6], parts[7], parts[8] raises IndexError
StatusTruncated(parts) ==
    \/ IndexOutOfRange(parts, PercentIdx)
    \/ IndexOutOfRange(parts, SuccessIdx)
    \/ IndexOutOfRange(parts, CompleteIdx)

\* the loop's test, taking every document for a complete one
IsCompleteAlways(parts) == TRUE

\* the loop's test, negated
IsCompleteInverted(parts) == Strip(Item(parts, CompleteIdx)) # CompleteTrue

\* is_complete == '<isComplete>true</isComplete>'
IsComplete(parts) == Strip(Item(parts, CompleteIdx)) = CompleteTrue

\* the success test, taking a failed export for a successful one too
IsSuccessfulLoose(parts) ==
    Strip(Item(parts, SuccessIdx)) \in {SuccessTrue, SuccessFalse}

\* is_successful == '<isSuccessful>true</isSuccessful>'
IsSuccessful(parts) == Strip(Item(parts, SuccessIdx)) = SuccessTrue

\* the failure test against a misspelt constant
IsNotSuccessfulMisspelt(parts) ==
    Strip(Item(parts, SuccessIdx)) = <<"<isSuccessful>False</isSuccessful>">>

\* is_successful == '<isSuccessful>false</isSuccessful>'
IsNotSuccessful(parts) == Strip(Item(parts, SuccessIdx)) = SuccessFalse

\* current_status.split('href=&quot;/wiki/')[1] raises IndexError
HrefMissing(current_status) ==
    IndexOutOfRange(Split(current_status, HrefMarker), 1)

\* the extraction without the cut at '&quot'
DownloadUrlUncut(current_status) == Item(Split(current_status, HrefMarker), 1)

\* current_status.split('href=&quot;/wiki/')[1].split('&quot')[0]
DownloadUrlOf(current_status) ==
    Item(Split(Item(Split(current_status, HrefMarker), 1), Quot), 0)

\* except KeyError
CaughtKeyError(e) == e = "KeyError"

\* except (IndexError, ValueError): UnicodeDecodeError is a ValueError
CaughtValueError(e) == e \in {"IndexError", "UnicodeDecodeError"}

\* except Exception
CaughtAny(e) == TRUE

\* except IndexError
Caught(e) == e = "IndexError"

(* -------------- outcome of one step of the try block ------------------- *)
\* the loop goes on
Continue(naps) ==
    [kind |-> "continue", value |-> None, exc |-> "none", errors |-> <<>>,
     naps |-> naps]

\* return v, after the log.error records in errs
Return(v, errs, naps) ==
    [kind |-> "return", value |-> v, exc |-> "none", errors |-> errs,
     naps |-> naps]

\* the handler without its log.error
RaiseNoLog(e, naps) ==
    IF Caught(e)
    THEN Return(None, <<>>, naps)
    ELSE [kind |-> "raise", value |-> None, exc |-> e, errors |-> <<>>,
          naps |-> naps]

\* exception e raised inside the try block: except IndexError logs it and
\* returns None, any other exception leaves the function
Raise(e, naps) ==
    IF Caught(e)
    THEN Return(None, <<e>>, naps)
    ELSE [kind |-> "raise", value |-> None, exc |-> e, errors |-> <<>>,
          naps |-> naps]

\* lines 1214-1217; a response is [error, body]: what self.get raises or returns
InitiateOutcome(resp) ==
    IF resp.error # "none" THEN Raise(resp.error, <<>>)
    ELSE IF ~DecodesStrict(resp.body) THEN Raise("UnicodeDecodeError", <<>>)
    ELSE IF TaskIdMissing(resp.body) THEN Raise("IndexError", <<>>)
    ELSE Continue(<<>>)

\* lines 1225-1240 for a loop that polls again when line 3 has no marker
StatusOutcomePollsAgain(parts) ==
    IF IsComplete(parts)
    THEN IF IsSuccessful(parts)
         THEN IF HrefMissing(Item(parts, StatusIdx))
              THEN Continue(<<SleepSeconds>>)
              ELSE Return(Some(DownloadUrlOf(Item(parts, StatusIdx))), <<>>,
                          <<SleepSeconds>>)
         ELSE IF IsNotSuccessful(parts)
              THEN Return(None, <<NotSuccessfulMsg>>, <<SleepSeconds>>)
              ELSE Continue(<<SleepSeconds>>)
    ELSE Continue(<<SleepSeconds>>)

\* lines 1225-1240 with the sleep moved into the not-complete branch
StatusOutcomeSleepIfRunning(parts) ==
    IF IsComplete(parts)
    THEN IF IsSuccessful(parts)
         THEN IF HrefMissing(Item(parts, StatusIdx))
              THEN Raise("IndexError", <<>>)
              ELSE Return(Some(DownloadUrlOf(Item(parts, StatusIdx))), <<>>, <<>>)
         ELSE IF IsNotSuccessful(parts)
              THEN Return(None, <<NotSuccessfulMsg>>, <<>>)
              ELSE Continue(<<>>)
    ELSE Continue(<<SleepSeconds>>)

\* lines 1228-1240, after the sleep
StatusOutcome(parts) ==
    IF IsComplete(parts)
    THEN IF IsSuccessful(parts)
         THEN IF HrefMissing(Item(parts, StatusIdx))
              THEN Raise("IndexError", <<SleepSeconds>>)
              ELSE Return(Some(DownloadUrlOf(Item(parts, StatusIdx))), <<>>,
                          <<SleepSeconds>>)
         ELSE IF IsNotSuccessful(parts)
              THEN Return(None, <<NotSuccessfulMsg>>, <<SleepSeconds>>)
              ELSE Continue(<<SleepSeconds>>)
    ELSE Continue(<<SleepSeconds>>)

\* one pass of the loop with lines 1222-1224 outside the try block
PollOutcomeUnguarded(resp) ==
    IF resp.error # "none" THEN Raise(resp.error, <<>>)
    ELSE IF ~DecodesStrict(resp.body) THEN Raise("UnicodeDecodeError", <<>>)
    ELSE IF StatusTruncated(ResponseParts(resp.body))
         THEN [kind |-> "raise", value |-> None, exc |-> "IndexError",
               errors |-> <<>>, naps |-> <<>>]
         ELSE StatusOutcome(ResponseParts(resp.body))

\* one pass of the while loop, lines 1219-1240
PollOutcome(resp) ==
    IF resp.error # "none" THEN Raise(resp.error, <<>>)
    ELSE IF ~DecodesStrict(resp.body) THEN Raise("UnicodeDecodeError", <<>>)
    ELSE IF StatusTruncated(ResponseParts(resp.body)) THEN Raise("IndexError", <<>>)
    ELSE StatusOutcome(ResponseParts(resp.body))

(* --------------- what the server and the transport answer --------------- *)
\* what self.get raises instead of returning a body
TransportErrors == {"HTTPError"}

RECURSIVE Compose(_, _)
\* every text put together from at most n of the pieces
Compose(pieces, n) ==
    IF n = 0
    THEN {<<>>}
    ELSE LET shorter == Compose(pieces, n - 1)
         IN  shorter \cup {s \o p : s \in shorter, p \in pieces}

\* bodies of the page that starts the export
InitBodies ==
    Compose({TaskIdMarker, TaskIdEnd, <<"42">>, <<"0xFF">>}, MaxInitPieces)

\* line 3 of the status document of a finished export
StatusLines ==
    Compose({HrefMarker, Quot, <<"reports/x.pdf">>, <<"href=">>}, MaxLinePieces)

PlainStatusLines ==
    {<<"Exporting">>, HrefMarker \o <<"reports/x.pdf">> \o Quot \o <<";">>}

CompleteFalse == <<"<isComplete>false</isComplete>">>

\* a line as a server that ends its lines with CR LF sends it
Padded(line) == <<"SP">> \o line \o <<"CR">>

SuccessLines ==
    {SuccessTrue, SuccessFalse, <<"<isSuccessful/>">>, Padded(SuccessTrue)}

CompleteLines == {CompleteTrue, CompleteFalse, Padded(CompleteTrue)}

\* a status document as the server holds it: how many lines it renders and
\* what it puts on lines 3, 6, 7 and 8; garbled: a byte that is not UTF-8
StatusDocs ==
    [lines : {CompleteIdx + 1}, status : PlainStatusLines, percent : {<<"50%">>},
     successful : SuccessLines, complete : CompleteLines, garbled : {FALSE}]
    \cup
    [lines : {1, CompleteIdx - 1, CompleteIdx, CompleteIdx + 2},
     status : PlainStatusLines, percent : {<<"SP", "100%">>},
     successful : {SuccessTrue, SuccessFalse},
     complete : {CompleteTrue, CompleteFalse},
     garbled : {FALSE}]
    \cup
    [lines : {CompleteIdx + 1}, status : StatusLines, percent : {<<"100%">>},
     successful : {SuccessTrue}, complete : {CompleteTrue}, garbled : {FALSE}]
    \cup
    [lines : {1, CompleteIdx + 1}, status : PlainStatusLines, percent : {<<"100%">>},
     successful : {SuccessTrue}, complete : {CompleteTrue}, garbled : {TRUE}]

\* line idx (0-based) of document d
DocLine(d, idx) ==
    IF idx = StatusIdx THEN d.status
    ELSE IF idx = PercentIdx THEN d.percent
    ELSE IF idx = SuccessIdx THEN d.successful
    ELSE IF idx = CompleteIdx THEN d.complete
    ELSE IF idx = 0 /\ d.garbled THEN <<"<task>", "0xFF">>
    ELSE <<"<task>">>

RECURSIVE RenderFrom(_, _)
\* lines idx .. d.lines - 1 of d, joined by newlines
RenderFrom(d, idx) ==
    IF idx = d.lines - 1
    THEN DocLine(d, idx)
    ELSE DocLine(d, idx) \o <<"LF">> \o RenderFrom(d, idx + 1)

\* the bytes of document d on the wire
Render(d) == RenderFrom(d, 0)

\* what self.get does: raises error, or returns body (doc is the status
\* document the body renders, None for the initiating page)
Failed(e) == [error |-> e, body |-> <<>>, doc |-> None]

Answered(bytes, doc) == [error |-> "none", body |-> bytes, doc |-> doc]

InitAnswers ==
    {Answered(b, None) : b \in InitBodies} \cup {Failed(e) : e \in TransportErrors}

PollAnswers ==
    {Answered(Render(d), Some(d)) : d \in StatusDocs}
        \cup {Failed(e) : e \in TransportErrors}

\* the outcomes of the answers, computed once
InitiateOutcomes == [a \in InitAnswers |-> InitiateOutcome(a)]

PollOutcomes == [a \in PollAnswers |-> PollOutcome(a)]

(* ------------------------------ state ---------------------------------- *)
VARIABLES
    pc,                 \* "idle", "poll" (inside the while loop), "returned", "raised"
    task_id,            \* None or Some(task id)
    poll_url,           \* None or Some(poll url)
    long_running_task,  \* the loop flag
    download_url,       \* None or Some(path)
    result,             \* the returned value, once pc = "returned"
    exc,                \* the exception that left the function, once pc = "raised"
    sent,               \* requests issued through self.get, in order
    sleeps,             \* durations of the time.sleep calls, in order
    error_log,          \* log.error records, in order
    init_body,          \* None or Some(body of the initiating response)
    last_doc,           \* None or Some(status document of the last poll answered)
    answered,           \* number of poll requests that got a body back
    running_seen        \* number of those that were whole and not complete

pollerVars ==
    <<pc, task_id, poll_url, long_running_task, download_url, result, exc, sent,
      sleeps, error_log, init_body, last_doc, answered, running_seen>>

\* two invocations of the poller running side by side (each has its own locals)
VARIABLES
    calls               \* invocation -> its locals, requests and the answers it got

pairVars == <<calls>>

\* one call of a content method (update_page, update_or_create, remove_page,
\* remove_page_history_keep_version, attach_content) against the server
VARIABLES
    site,               \* what the server stores, as far as the method reads it
    op,                 \* the running call: method, position, arguments, locals
    reqs,               \* requests issued through self.get/put/post/delete, in order
    ret                 \* how the call ended: value returned or exception raised

restVars == <<site, op, reqs, ret>>

vars == <<pollerVars, pairVars, restVars>>

\* the invocations, and the task identifier the server gives each of them
Callers == {1, 2}

CallerTaskId == <<"41", "42">>

IdleCall ==
    [pc |-> "idle", task_id |-> None, poll_url |-> None,
     long_running_task |-> FALSE, download_url |-> None, result |-> None,
     exc |-> "none", sent |-> <<>>, init |-> None, polls |-> <<>>]

PairIdle == calls = [c \in Callers |-> IdleCall]

\* no content method has been called yet
NoOutcome == [kind |-> "pending", value |-> None, exc |-> "none", errors |-> <<>>]

RestIdle ==
    /\ site = None
    /\ op = [method |-> "none", pc |-> "idle"]
    /\ reqs = <<>>
    /\ ret = NoOutcome

\* a request sent with the default headers of the client
RequestDefaultHeaders(u) == [url |-> u, headers |-> "default_headers"]

\* lines 1212-1219: self.get(url, headers=headers, not_json_response=True)
Request(u) == [url |-> u, headers |-> FormTokenHeaders]

PollRequests == SelectSeq(sent, LAMBDA r : r.url # ExportUrl)

\* the document is whole (lines 0..8 are there) and reports isComplete=false
StillRunning(d) ==
    /\ ~d.garbled
    /\ d.lines > CompleteIdx
    /\ d.complete = CompleteFalse

Init ==
    /\ pc = "idle"
    /\ task_id = None
    /\ poll_url = None
    /\ long_running_task = FALSE
    /\ download_url = None
    /\ result = None
    /\ exc = "none"
    /\ sent = <<>>
    /\ sleeps = <<>>
    /\ error_log = <<>>
    /\ init_body = None
    /\ last_doc = None
    /\ answered = 0
    /\ running_seen = 0
    /\ PairIdle
    /\ RestIdle

\* the effect of an outcome on the control state, the result and the logs
Finish(o) ==
    /\ pc' = CASE o.kind = "continue" -> "poll"
               [] o.kind = "return" -> "returned"
               [] o.kind = "raise" -> "raised"
    /\ long_running_task' = (o.kind = "continue")
    /\ download_url' = IF o.kind = "return" THEN o.value ELSE download_url
    /\ result' = IF o.kind = "return" THEN o.value ELSE result
    /\ exc' = o.exc
    /\ sleeps' = sleeps \o o.naps
    /\ error_log' = error_log \o o.errors

\* lines 1209-1217: the call up to the start of the loop
Initiate(a) ==
    /\ pc = "idle"
    /\ sent' = Append(sent, Request(ExportUrl))
    /\ init_body' = IF a.error = "none" THEN Some(a.body) ELSE None
    /\ Finish(InitiateOutcomes[a])
    /\ IF InitiateOutcomes[a].kind = "continue"
       THEN /\ task_id' = Some(TaskIdOf(a.body))
            /\ poll_url' = Some(PollUrlOf(TaskIdOf(a.body)))
       ELSE UNCHANGED <<task_id, poll_url>>
    /\ UNCHANGED <<last_doc, answered, running_seen>>
    /\ UNCHANGED <<pairVars, restVars>>

\* one pass of a loop that gives up after its first pass
PollOnceLimited(a) ==
    /\ pc = "poll"
    /\ long_running_task
    /\ Len(PollRequests) < MaxPolls
    /\ IF Len(PollRequests) >= 1
       THEN /\ pc' = "returned"
            /\ long_running_task' = FALSE
            /\ result' = download_url
            /\ UNCHANGED <<download_url, exc, sent, sleeps, error_log, last_doc,
                           answered, running_seen>>
       ELSE /\ sent' = Append(sent, Request(poll_url[1]))
            /\ Finish(PollOutcomes[a])
            /\ IF a.error = "none"
               THEN /\ last_doc' = a.doc
                    /\ answered' = answered + 1
                    /\ running_seen' =
                           running_seen + (IF StillRunning(a.doc[1]) THEN 1 ELSE 0)
               ELSE UNCHANGED <<last_doc, answered, running_seen>>
    /\ UNCHANGED <<task_id, poll_url, init_body>>
    /\ UNCHANGED <<pairVars, restVars>>

\* lines 1218-1245: one pass of the loop
PollOnce(a) ==
    /\ pc = "poll"
    /\ long_running_task
    /\ Len(PollRequests) < MaxPolls
    /\ sent' = Append(sent, Request(poll_url[1]))
    /\ Finish(PollOutcomes[a])
    /\ IF a.error = "none"
       THEN /\ last_doc' = a.doc
            /\ answered' = answered + 1
            /\ running_seen' = running_seen + (IF StillRunning(a.doc[1]) THEN 1 ELSE 0)
       ELSE UNCHANGED <<last_doc, answered, running_seen>>
    /\ UNCHANGED <<task_id, poll_url, init_body>>
    /\ UNCHANGED <<pairVars, restVars>>

Next ==
    \/ \E a \in InitAnswers : Initiate(a)
    \/ \E a \in PollAnswers : PollOnce(a)

Spec == Init /\ [][Next]_vars

\* the server never reports completion: every poll is answered with a whole
\* document reporting isComplete=false; the loop runs on by itself
RunningAnswers ==
    {a \in PollAnswers : a.error = "none" /\ StillRunning(a.doc[1])}

NextRunning ==
    \/ \E a \in InitAnswers : Initiate(a)
    \/ \E a \in RunningAnswers : PollOnce(a)

SpecRunning == Init /\ [][NextRunning]_vars /\ WF_vars(NextRunning)

(* ------------- two invocations of the poller, interleaved ---------------- *)
\* the page that starts the export of invocation c
PairInitAnswer(c) ==
    Answered(TaskIdMarker \o <<CallerTaskId[c]>> \o TaskIdEnd, None)

\* what a poll of either invocation may be answered with
PairPollAnswers ==
    {a \in PollAnswers :
        \/ a.error # "none"
        \/ /\ a.doc[1].lines = CompleteIdx + 1
           /\ a.doc[1].percent = <<"50%">>
           /\ a.doc[1].status # <<"Exporting">>
           /\ a.doc[1].successful \in {SuccessTrue, SuccessFalse}}

\* the poll_url of the invocation that assigned it last, were it kept in one
\* attribute of the client instead of a local
PollUrlShared(c) ==
    IF calls[2].poll_url # None THEN calls[2].poll_url[1] ELSE calls[c].poll_url[1]

\* poll_url as invocation c reads it at line 1219: its own local
PollUrlRead(c) == calls[c].poll_url[1]

\* the locals of an invocation after an outcome
CallAfter(call, o) ==
    [call EXCEPT
        !.pc = CASE o.kind = "continue" -> "poll"
                 [] o.kind = "return" -> "returned"
                 [] o.kind = "raise" -> "raised",
        !.long_running_task = (o.kind = "continue"),
        !.download_url = IF o.kind = "return" THEN o.value ELSE @,
        !.result = IF o.kind = "return" THEN o.value ELSE @,
        !.exc = o.exc]

\* lines 1209-1217 of invocation c
PairInitiate(c) ==
    /\ calls[c].pc = "idle"
    /\ LET a == PairInitAnswer(c)
           o == InitiateOutcome(a)
           started == CallAfter(calls[c], o)
       IN  calls' = [calls EXCEPT ![c] =
               [started EXCEPT
                   !.sent = Append(@, Request(ExportUrl)),
                   !.init = Some(a),
                   !.task_id = IF o.kind = "continue"
                               THEN Some(TaskIdOf(a.body)) ELSE @,
                   !.poll_url = IF o.kind = "continue"
                                THEN Some(PollUrlOf(TaskIdOf(a.body))) ELSE @]]
    /\ UNCHANGED <<pollerVars, restVars>>

\* lines 1218-1245 of invocation c: one pass of its loop
PairPollOnce(c, a) ==
    /\ calls[c].pc = "poll"
    /\ calls[c].long_running_task
    /\ Len(calls[c].polls) < MaxPolls
    /\ calls' = [calls EXCEPT ![c] =
           [CallAfter(calls[c], PollOutcomes[a]) EXCEPT
               !.sent = Append(@, Request(PollUrlRead(c))),
               !.polls = Append(@, a)]]
    /\ UNCHANGED <<pollerVars, restVars>>

NextPair ==
    \/ \E c \in Callers : PairInitiate(c)
    \/ \E c \in Callers, a \in PairPollAnswers : PairPollOnce(c, a)

SpecPair == Init /\ [][NextPair]_vars

(* ------------------------ the content methods --------------------------- *)
\* Text of a page body is a token sequence too; "&auml;" is an HTML entity
\* and "a-umlaut" the symbol it names.
\* bound: the highest version number a page starts with
MaxVersion == 2

SpaceKey == "DEV"

HomeId == "10"

GuideId == "20"

DocId == "30"

NewId == "40"

DocTitle == "Doc"

\* a check of the representation that lets markdown through
ValidRepresentationsAndMarkdown ==
    {"editor", "export_view", "view", "storage", "wiki", "markdown"}

\* line 28
ValidRepresentations == {"editor", "export_view", "view", "storage", "wiki"}

\* utils.symbol_normalizer: an HTML entity becomes the symbol it names
SymbolNormalizer(text) ==
    [i \in DOMAIN text |-> IF text[i] = "&auml;" THEN "a-umlaut" ELSE text[i]]

\* the JSON of a page, with the expansions the methods ask for
Page(id, title, body, version, ancestors) ==
    [id |-> id, space |-> SpaceKey, title |-> title, body |-> body,
     version |-> version, ancestors |-> ancestors]

\* the servers a call may meet: a home page, a guide under it, and perhaps a
\* page titled DocTitle somewhere in the space
BaseSite ==
    (HomeId :> Page(HomeId, "Home", <<>>, 1, <<>>))
        @@ (GuideId :> Page(GuideId, "Guide", <<>>, 1, <<HomeId>>))

RemoteBodies == {<<>>, <<"text">>, <<"&auml;">>}

DocPages ==
    {Page(DocId, DocTitle, b, v, anc) :
        b \in RemoteBodies, v \in 1..MaxVersion,
        anc \in {<<>>, <<HomeId>>, <<HomeId, GuideId>>}}

Sites == {BaseSite} \cup {BaseSite @@ (DocId :> d) : d \in DocPages}

\* the arguments the calls are tried with
CandidateBodies == {<<>>, <<"text">>, <<"&auml;">>, <<"a-umlaut">>}

RepresentationsTried == {"storage", "markdown"}

UpdatePageArgs ==
    [page_id : {DocId}, title : {DocTitle}, body : CandidateBodies,
     parent_id : {None, Some(GuideId)}, representation : RepresentationsTried,
     minor_edit : BOOLEAN]

UpdateOrCreateArgs ==
    [parent_id : {HomeId, GuideId}, title : {DocTitle}, body : CandidateBodies,
     representation : RepresentationsTried, minor_edit : BOOLEAN]

\* a request handed to the HTTP collaborator
Req(verb, path, params, data) ==
    [verb |-> verb, path |-> path, params |-> params, data |-> data]

\* '{page_id}'.format(...) of an identifier that may be None
IdText(id) == IF id = None THEN "None" ELSE id[1]

ContentPath(id) == <<"rest/api/content", IdText(id)>>

\* lines 157-180
GetPageById(id, expand) ==
    Req("GET", ContentPath(id), IF expand = None THEN <<>> ELSE <<"expand", expand[1]>>,
        None)

\* lines 136-146, with the default start=0, limit=1 and no expand
GetPageByTitle(space, title) ==
    Req("GET", <<"rest/api/content">>,
        [start |-> 0, limit |-> 1, spaceKey |-> space, title |-> title], None)

\* lines 618-620
History(id) == Req("GET", ContentPath(id) \o <<"history">>, <<>>, None)

\* lines 26-35
CreateBody(body, representation) ==
    [key |-> representation, value |-> body, representation |-> representation]

\* how the HTTP collaborator may answer: the server's JSON, nothing (None),
\* or an HTTPError raised
AnswerKinds == {"ok", "none", "HTTPError"}

\* the server stores the page an identifier names
Has(id) == id # None /\ id[1] \in DOMAIN site

\* the server has no JSON for a page it does not store
Answers(k, id) == k = "ok" => Has(id)

\* the pages a search finds: those of the title and of the space, when given
Matches(space, title) ==
    {id \in DOMAIN site :
        /\ title = None \/ site[id].title = title[1]
        /\ space = None \/ site[id].space = space[1]}

\* lines 147-155: results[0] of the search, None (and an error logged) when
\* the search has no results or the answer is None
Truthy(v) == v # None

FirstResult(k, space, title) ==
    IF k = "ok" /\ Matches(space, title) # {}
    THEN Some(site[CHOOSE id \in Matches(space, title) : TRUE])
    ELSE None

CantFind == "Can't find page"

\* the call ends
Give(v) ==
    /\ op' = [op EXCEPT !.pc = "done"]
    /\ ret' = [ret EXCEPT !.kind = "return", !.value = v]

Throw(e) ==
    /\ op' = [op EXCEPT !.pc = "done"]
    /\ ret' = [ret EXCEPT !.kind = "raise", !.exc = e]

\* update_page(page_id, title, body, parent_id, representation, minor_edit)
CallUpdatePage(s, a) ==
    /\ op.pc = "idle"
    /\ site' = s
    /\ op' = [method |-> "update_page", pc |-> "is_page_content_is_already_updated",
              page_id |-> Some(a.page_id), parent_id |-> a.parent_id,
              given_parent |-> a.parent_id, space |-> None,
              title |-> a.title, body |-> a.body,
              representation |-> a.representation, minor_edit |-> a.minor_edit,
              version |-> 0, compared |-> FALSE, content |-> None,
              lookup |-> "unasked", existed |-> FALSE, first |-> None]
    /\ UNCHANGED <<reqs, ret, pollerVars, pairVars>>

\* update_or_create(parent_id, title, body, representation, minor_edit)
CallUpdateOrCreate(s, a) ==
    /\ op.pc = "idle"
    /\ site' = s
    /\ op' = [method |-> "update_or_create", pc |-> "get_page_space",
              page_id |-> None, parent_id |-> Some(a.parent_id),
              given_parent |-> Some(a.parent_id), space |-> None,
              title |-> a.title, body |-> a.body,
              representation |-> a.representation, minor_edit |-> a.minor_edit,
              version |-> 0, compared |-> FALSE, content |-> None,
              lookup |-> "unasked", existed |-> FALSE, first |-> None]
    /\ UNCHANGED <<reqs, ret, pollerVars, pairVars>>

\* line 809, get_page_space: lines 99-105
GetPageSpace(k) ==
    /\ op.pc = "get_page_space"
    /\ Answers(k, op.parent_id)
    /\ reqs' = Append(reqs, GetPageById(op.parent_id, Some("space")))
    /\ IF k = "HTTPError"
       THEN Throw("HTTPError")
       ELSE /\ op' = [op EXCEPT
                  !.pc = "page_exists",
                  !.space = IF k = "ok" THEN Some(site[op.parent_id[1]].space) ELSE None]
            /\ UNCHANGED ret
    /\ UNCHANGED <<site, pollerVars, pairVars>>

\* page_exists were it to let an HTTPError pass
PageExistsCatchesNoHTTPError == {"KeyError", "IndexError"}

\* line 45: the exceptions page_exists turns into "no such page"
PageExistsCatches == {"HTTPError", "KeyError", "IndexError"}

\* the server stores a page of that title in the space of the given parent
ExistsInParentSpace ==
    Matches(Some(site[op.given_parent[1]].space), Some(op.title)) # {}

\* line 811, page_exists: lines 37-47
PageExists(k) ==
    /\ op.pc = "page_exists"
    /\ reqs' = Append(reqs, GetPageByTitle(op.space, Some(op.title)))
    /\ IF k = "HTTPError"
       THEN IF "HTTPError" \in PageExistsCatches
            THEN /\ op' = [op EXCEPT !.pc = "create_page",
                                     !.lookup = k,
                                     !.existed = ExistsInParentSpace]
                 /\ UNCHANGED ret
            ELSE /\ op' = [op EXCEPT !.pc = "done",
                                     !.lookup = k,
                                     !.existed = ExistsInParentSpace]
                 /\ ret' = [ret EXCEPT !.kind = "raise", !.exc = "HTTPError"]
       ELSE /\ op' = [op EXCEPT
                  !.pc = IF Truthy(FirstResult(k, op.space, Some(op.title)))
                         THEN "get_page_id" ELSE "create_page",
                  !.lookup = k,
                  !.existed = ExistsInParentSpace]
            /\ ret' = IF Truthy(FirstResult(k, op.space, Some(op.title)))
                      THEN ret
                      ELSE [ret EXCEPT !.errors = Append(@, CantFind)]
    /\ UNCHANGED <<site, pollerVars, pairVars>>

\* line 812, get_page_id: lines 80-87
GetPageId(k) ==
    /\ op.pc = "get_page_id"
    /\ reqs' = Append(reqs, GetPageByTitle(op.space, Some(op.title)))
    /\ IF k = "HTTPError"
       THEN Throw("HTTPError")
       ELSE /\ op' = [op EXCEPT
                  !.pc = "get_parent_content_id",
                  !.page_id = IF Truthy(FirstResult(k, op.space, Some(op.title)))
                              THEN Some(FirstResult(k, op.space, Some(op.title))[1].id)
                              ELSE None]
            /\ ret' = IF Truthy(FirstResult(k, op.space, Some(op.title)))
                      THEN ret
                      ELSE [ret EXCEPT !.errors = Append(@, CantFind)]
    /\ UNCHANGED <<site, pollerVars, pairVars>>

\* a lookup of the parent that leaves the caller's parent_id in place
GetParentContentIdKeepsGiven(k) ==
    /\ op.pc = "get_parent_content_id"
    /\ Answers(k, op.page_id)
    /\ reqs' = Append(reqs, GetPageById(op.page_id, Some("ancestors")))
    /\ CASE k = "HTTPError" -> Throw("HTTPError")
         [] k = "none" -> Throw("AttributeError")
         [] k = "ok" ->
              IF site[op.page_id[1]].ancestors = <<>>
              THEN Throw("KeyError")
              ELSE /\ op' = [op EXCEPT
                         !.pc = "is_page_content_is_already_updated"]
                   /\ UNCHANGED ret
    /\ UNCHANGED <<site, pollerVars, pairVars>>

\* line 813, get_parent_content_id: lines 89-97
GetParentContentId(k) ==
    /\ op.pc = "get_parent_content_id"
    /\ Answers(k, op.page_id)
    /\ reqs' = Append(reqs, GetPageById(op.page_id, Some("ancestors")))
    /\ CASE k = "HTTPError" -> Throw("HTTPError")
         [] k = "none" -> Throw("AttributeError")
         [] k = "ok" ->
              IF site[op.page_id[1]].ancestors = <<>>
              THEN Throw("KeyError")
              ELSE /\ op' = [op EXCEPT
                         !.pc = "is_page_content_is_already_updated",
                         !.parent_id =
                             Some(site[op.page_id[1]].ancestors[
                                      Len(site[op.page_id[1]].ancestors)])]
                   /\ UNCHANGED ret
    /\ UNCHANGED <<site, pollerVars, pairVars>>

\* a comparison whose answer carries no storage value (body not expanded)
RemoteContentUnexpanded(k, id) == IF k # "ok" THEN None ELSE Some(<<>>)

\* lines 696-701: the storage value of the answer, normalised when truthy
RemoteContent(k, id) ==
    IF k # "ok"
    THEN None
    ELSE IF site[id[1]].body # <<>>
         THEN Some(SymbolNormalizer(site[id[1]].body))
         ELSE Some(site[id[1]].body)

\* a comparison that never finds the two bodies equal
SameContentNever(content, body) == FALSE

\* line 706
SameContent(content, body) == content = Some(body)

\* line 736, is_page_content_is_already_updated: lines 689-711
IsPageContentIsAlreadyUpdated(k) ==
    /\ op.pc = "is_page_content_is_already_updated"
    /\ Answers(k, op.page_id)
    /\ reqs' = Append(reqs, GetPageById(op.page_id, Some("body.storage")))
    /\ IF k = "HTTPError"
       THEN Throw("HTTPError")
       ELSE /\ op' = [op EXCEPT
                  !.pc = IF SameContent(RemoteContent(k, op.page_id), op.body)
                         THEN "get_page_by_id" ELSE "history",
                  !.compared = TRUE,
                  !.content = RemoteContent(k, op.page_id)]
            /\ UNCHANGED ret
    /\ UNCHANGED <<site, pollerVars, pairVars>>

\* line 737
ReturnCurrentPage(k) ==
    /\ op.pc = "get_page_by_id"
    /\ Answers(k, op.page_id)
    /\ reqs' = Append(reqs, GetPageById(op.page_id, None))
    /\ CASE k = "HTTPError" -> Throw("HTTPError")
         [] k = "none" -> Give(None)
         [] k = "ok" -> Give(Some(site[op.page_id[1]]))
    /\ UNCHANGED <<site, pollerVars, pairVars>>

\* lines 739-744
ReadHistory(k) ==
    /\ op.pc = "history"
    /\ Answers(k, op.page_id)
    /\ reqs' = Append(reqs, History(op.page_id))
    /\ CASE k = "HTTPError" -> Throw("HTTPError")
         [] k = "none" ->
              /\ op' = [op EXCEPT !.pc = "done"]
              /\ ret' = [ret EXCEPT !.kind = "return", !.value = None,
                                    !.errors = Append(@, CantFind)]
         [] k = "ok" ->
              /\ op' = [op EXCEPT !.pc = "put",
                                  !.version = site[op.page_id[1]].version + 1]
              /\ UNCHANGED ret
    /\ UNCHANGED <<site, pollerVars, pairVars>>

\* a PUT that carries the version number read, not the next one
PutDataSameVersion ==
    [id |-> op.page_id[1], type |-> "page", title |-> op.title,
     body |-> CreateBody(op.body, op.representation),
     version |-> [number |-> op.version - 1, minorEdit |-> op.minor_edit],
     ancestors |-> IF Truthy(op.parent_id)
                   THEN Some([type |-> "page", id |-> op.parent_id[1]])
                   ELSE None]

\* lines 746-755
PutData ==
    [id |-> op.page_id[1], type |-> "page", title |-> op.title,
     body |-> CreateBody(op.body, op.representation),
     version |-> [number |-> op.version, minorEdit |-> op.minor_edit],
     ancestors |-> IF Truthy(op.parent_id)
                   THEN Some([type |-> "page", id |-> op.parent_id[1]])
                   ELSE None]

\* the page as the server stores it once it accepts a PUT
Stored(data) ==
    [site[data.id] EXCEPT
        !.title = data.title,
        !.body = data.body.value,
        !.version = data.version.number,
        !.ancestors = IF data.ancestors = None
                      THEN @
                      ELSE Append(site[data.ancestors[1].id].ancestors,
                                  data.ancestors[1].id)]

\* lines 746-757
PutPage(k) ==
    /\ op.pc = "put"
    /\ k # "none"
    /\ IF op.representation \notin ValidRepresentations
       THEN /\ k = "ok"
            /\ Throw("ValueError")
            /\ UNCHANGED <<reqs, site>>
       ELSE /\ reqs' = Append(reqs, Req("PUT", ContentPath(op.page_id), <<>>, Some(PutData)))
            /\ IF k = "HTTPError"
               THEN /\ Throw("HTTPError")
                    /\ UNCHANGED site
               ELSE /\ Give(Some(Stored(PutData)))
                    /\ site' = [site EXCEPT ![op.page_id[1]] = Stored(PutData)]
    /\ UNCHANGED <<pollerVars, pairVars>>

\* lines 403-410
CreateData ==
    [type |-> "page", title |-> op.title, space |-> [key |-> op.space],
     body |-> CreateBody(op.body, op.representation),
     ancestors |-> IF Truthy(op.parent_id)
                   THEN Some([type |-> "page", id |-> op.parent_id[1]])
                   ELSE None]

\* the page the server makes of an accepted POST
Created(data) ==
    Page(NewId, data.title, data.body.value, 1,
         Append(site[data.ancestors[1].id].ancestors, data.ancestors[1].id))

\* the server takes a new page when the space is named and has no page of
\* that title
Accepts(data) ==
    /\ data.space.key # None
    /\ Matches(data.space.key, Some(data.title)) = {}

\* line 817, create_page: lines 391-411
CreatePage(k) ==
    /\ op.pc = "create_page"
    /\ k # "none"
    /\ IF op.representation \notin ValidRepresentations
       THEN /\ k = "ok"
            /\ Throw("ValueError")
            /\ UNCHANGED <<reqs, site>>
       ELSE /\ reqs' = Append(reqs, Req("POST", <<"rest/api/content", "">>, <<>>,
                                        Some(CreateData)))
            /\ k = "ok" => Accepts(CreateData)
            /\ IF k = "HTTPError"
               THEN /\ Throw("HTTPError")
                    /\ UNCHANGED site
               ELSE /\ Give(Some(Created(CreateData)))
                    /\ site' = site @@ (NewId :> Created(CreateData))
    /\ UNCHANGED <<pollerVars, pairVars>>

\* update_page called again with the same arguments, once the first call
\* has ended; first keeps how the first call ended and what it left on the
\* server
CallUpdatePageAgain ==
    /\ op.method = "update_page"
    /\ op.pc = "done"
    /\ op.first = None
    /\ op' = [op EXCEPT
           !.pc = "is_page_content_is_already_updated",
           !.parent_id = op.given_parent,
           !.version = 0, !.compared = FALSE, !.content = None,
           !.first = Some([ret |-> ret, page |-> site[DocId], reqs |-> reqs,
                           content |-> op.content])]
    /\ ret' = NoOutcome
    /\ UNCHANGED <<site, reqs, pollerVars, pairVars>>

NextUpdate ==
    \/ \E s \in Sites, a \in UpdatePageArgs : CallUpdatePage(s, a)
    \/ \E s \in Sites, a \in UpdateOrCreateArgs : CallUpdateOrCreate(s, a)
    \/ \E k \in AnswerKinds : GetPageSpace(k)
    \/ \E k \in AnswerKinds : PageExists(k)
    \/ \E k \in AnswerKinds : GetPageId(k)
    \/ \E k \in AnswerKinds : GetParentContentId(k)
    \/ \E k \in AnswerKinds : IsPageContentIsAlreadyUpdated(k)
    \/ \E k \in AnswerKinds : ReturnCurrentPage(k)
    \/ \E k \in AnswerKinds : ReadHistory(k)
    \/ \E k \in AnswerKinds : PutPage(k)
    \/ \E k \in AnswerKinds : CreatePage(k)

SpecUpdate == Init /\ [][NextUpdate]_vars

\* two calls of update_page in a row, for a page the server stores
NextTwice ==
    \/ \E s \in Sites \ {BaseSite}, a \in UpdatePageArgs : CallUpdatePage(s, a)
    \/ CallUpdatePageAgain
    \/ \E k \in AnswerKinds : IsPageContentIsAlreadyUpdated(k)
    \/ \E k \in AnswerKinds : ReturnCurrentPage(k)
    \/ \E k \in AnswerKinds : ReadHistory(k)
    \/ \E k \in AnswerKinds : PutPage(k)

SpecTwice == Init /\ [][NextTwice]_vars

(* ------------------ get_page_as_pdf (lines 1034-1045) ------------------- *)
\* self.api_version: 'cloud', or the version of a server installation
ApiVersions == {"cloud", "latest"}

\* how the download may be answered: with the file, or with an HTTPError
DownloadKinds == {"ok", "HTTPError"}

\* get_page_as_pdf(page_id), lines 1040-1043: on cloud the poller is entered
\* with the export url
CallGetPageAsPdf(v) ==
    /\ op.pc = "idle"
    /\ pc = "idle"
    /\ op' = [method |-> "get_page_as_pdf",
              pc |-> IF v = "cloud"
                     THEN "get_pdf_download_url_for_confluence_cloud"
                     ELSE "get",
              api_version |-> v]
    /\ UNCHANGED <<site, reqs, ret, pollerVars, pairVars>>

InPoller ==
    /\ op.method = "get_page_as_pdf"
    /\ op.pc = "get_pdf_download_url_for_confluence_cloud"

\* line 1043: the poller, run inside get_page_as_pdf
PdfInitiate(a) == InPoller /\ Initiate(a)

PdfPollOnce(a) == InPoller /\ PollOnce(a)

\* line 1043: an exception that leaves the poller leaves get_page_as_pdf
PollerRaised ==
    /\ InPoller
    /\ pc = "raised"
    /\ Throw(exc)
    /\ UNCHANGED <<site, reqs, pollerVars, pairVars>>

\* a download that always asks for the export url
DownloadUrlOfExport == Some(ExportUrl)

\* lines 1041-1043: the url of the download, None when the poller returned None
DownloadUrl ==
    IF op.api_version = "cloud" THEN result ELSE Some(ExportUrl)

\* line 1045: self.get(url, headers=headers, not_json_response=True)
DownloadPdf(k) ==
    /\ op.method = "get_page_as_pdf"
    /\ \/ op.pc = "get"
       \/ InPoller /\ pc = "returned"
    /\ reqs' = Append(reqs, Request(DownloadUrl))
    /\ IF k = "HTTPError" THEN Throw("HTTPError") ELSE Give(Some("pdf"))
    /\ UNCHANGED <<site, pollerVars, pairVars>>

NextPdf ==
    \/ \E v \in ApiVersions : CallGetPageAsPdf(v)
    \/ \E a \in InitAnswers : PdfInitiate(a)
    \/ \E a \in PollAnswers : PdfPollOnce(a)
    \/ PollerRaised
    \/ \E k \in DownloadKinds : DownloadPdf(k)

SpecPdf == Init /\ [][NextPdf]_vars

(* --------------------- remove_page (lines 373-389) ---------------------- *)
\* bound: the pages of the space are 1..MaxPages, page 1 at the top
MaxPages == 4

\* the most children one listing returns when no limit is asked for (line 55:
\* the site limit), scaled down to the size of the trees tried
SiteLimit == 2

TreePages == 1..MaxPages

\* the pages met from x by following parent links, x included
RECURSIVE Lineage(_, _, _)
Lineage(parent, x, fuel) ==
    IF x = 1 \/ fuel = 0 THEN {x} ELSE {x} \cup Lineage(parent, parent[x], fuel - 1)

\* every page hangs under page 1
Trees ==
    {parent \in [TreePages \ {1} -> TreePages] :
        \A x \in TreePages \ {1} : x # parent[x] /\ 1 \in Lineage(parent, x, MaxPages)}

\* the children of x among the pages from n on, in the order of the listing
RECURSIVE KidsFrom(_, _, _)
KidsFrom(s, x, n) ==
    IF n > MaxPages
    THEN <<>>
    ELSE (IF n # 1 /\ n \in s.present /\ s.parent[n] = x THEN <<n>> ELSE <<>>)
             \o KidsFrom(s, x, n + 1)

Kids(s, x) == KidsFrom(s, x, 1)

\* x and the pages below it
Subtree(s, x) == {y \in s.present : x \in Lineage(s.parent, y, MaxPages)}

\* lines 49-70 without start and limit: the server returns the first
\* SiteLimit children
Listing(s, x) ==
    IF Len(Kids(s, x)) > SiteLimit THEN SubSeq(Kids(s, x), 1, SiteLimit) ELSE Kids(s, x)

RemovePageArgs ==
    [page_id : TreePages, status : {None, Some("trashed")}, recursive : BOOLEAN]

\* a call of remove_page waiting for its children or for its delete
Frame(page, listed, children) ==
    [page |-> page, listed |-> listed, children |-> children, next |-> 1]

\* lines 384-385: the loop calls remove_page for the next child, if any
Descend(stack) ==
    IF stack # <<>>
       /\ stack[Len(stack)].listed
       /\ stack[Len(stack)].next <= Len(stack[Len(stack)].children)
    THEN Append([stack EXCEPT ![Len(stack)].next = @ + 1],
                Frame(stack[Len(stack)].children[stack[Len(stack)].next],
                      ~op.recursive, <<>>))
    ELSE stack

Top == op.stack[Len(op.stack)]

\* remove_page(page_id, status, recursive)
CallRemovePage(parent, a) ==
    /\ op.pc = "idle"
    /\ site' = [parent |-> parent, present |-> TreePages]
    /\ op' = [method |-> "remove_page", pc |-> "running",
              page_id |-> a.page_id, status |-> a.status, recursive |-> a.recursive,
              stack |-> <<Frame(a.page_id, ~a.recursive, <<>>)>>]
    /\ UNCHANGED <<reqs, ret, pollerVars, pairVars>>

\* lines 382-383, get_page_child_by_type: lines 49-70
ListChildren(k) ==
    /\ op.method = "remove_page"
    /\ op.pc = "running"
    /\ ~Top.listed
    /\ k = "ok" => Top.page \in site.present
    /\ reqs' = Append(reqs, Req("GET", <<"rest/api/content", Top.page, "child", "page">>,
                            <<>>, None))
    /\ CASE k = "HTTPError" -> Throw("HTTPError")
         [] k = "none" -> Throw("TypeError")
         [] k = "ok" ->
              /\ op' = [op EXCEPT !.stack =
                     Descend([op.stack EXCEPT
                                 ![Len(op.stack)].listed = TRUE,
                                 ![Len(op.stack)].children = Listing(site, Top.page)])]
              /\ UNCHANGED ret
    /\ UNCHANGED <<site, pollerVars, pairVars>>

\* lines 386-389
DeletePage(k) ==
    /\ op.method = "remove_page"
    /\ op.pc = "running"
    /\ Top.listed
    /\ k # "none"
    /\ k = "ok" => Top.page \in site.present
    /\ reqs' = Append(reqs, Req("DELETE", <<"rest/api/content", Top.page>>,
                            IF op.status = None THEN <<>> ELSE <<"status", op.status[1]>>,
                            None))
    /\ IF k = "HTTPError"
       THEN /\ Throw("HTTPError")
            /\ UNCHANGED site
       ELSE /\ site' = [site EXCEPT !.present = @ \ {Top.page}]
            /\ IF Len(op.stack) = 1
               THEN /\ op' = [op EXCEPT !.pc = "done", !.stack = <<>>]
                    /\ ret' = [ret EXCEPT !.kind = "return"]
               ELSE /\ op' = [op EXCEPT !.stack =
                                  Descend(SubSeq(op.stack, 1, Len(op.stack) - 1))]
                    /\ UNCHANGED ret
    /\ UNCHANGED <<pollerVars, pairVars>>

NextRemove ==
    \/ \E parent \in Trees, a \in RemovePageArgs : CallRemovePage(parent, a)
    \/ \E k \in AnswerKinds : ListChildren(k)
    \/ \E k \in AnswerKinds : DeletePage(k)

SpecRemove == Init /\ [][NextRemove]_vars

(* -------- remove_page_history_keep_version (lines 658-672) --------------- *)
\* bound: the highest version number of the page before the call, and the
\* highest keep_last_versions tried
MaxHistory == 4

\* line 668: version_number=1
OldestVersion == 1

\* the page has a version number; the server either renumbers the versions
\* when one is deleted (the number of the page goes down by one) or does not
HistorySites == [version : 1..MaxHistory, renumbers : BOOLEAN]

KeepVersionArgs == [page_id : {DocId}, keep_last_versions : 0..MaxHistory]

\* a loop that goes on while the version number has not passed below the limit
KeepsDeletingInclusive(page_number, keep_last_versions) ==
    page_number >= keep_last_versions

\* line 667
KeepsDeleting(page_number, keep_last_versions) == page_number > keep_last_versions

\* remove_page_history_keep_version(page_id, keep_last_versions)
CallKeepVersion(s, a) ==
    /\ op.pc = "idle"
    /\ site' = s
    /\ op' = [method |-> "remove_page_history_keep_version", pc |-> "get_page_by_id",
              page_id |-> Some(a.page_id), keep_last_versions |-> a.keep_last_versions,
              page_number |-> 0, numbers |-> <<>>]
    /\ UNCHANGED <<reqs, ret, pollerVars, pairVars>>

\* lines 665-667 and 669-671: read the version number, test the loop condition
ReadVersion(k) ==
    /\ op.method = "remove_page_history_keep_version"
    /\ op.pc = "get_page_by_id"
    /\ reqs' = Append(reqs, GetPageById(op.page_id, Some("version")))
    /\ CASE k = "HTTPError" -> Throw("HTTPError")
         [] k = "none" -> Throw("AttributeError")
         [] k = "ok" ->
              /\ op' = [op EXCEPT
                     !.pc = IF KeepsDeleting(site.version, op.keep_last_versions)
                            THEN "remove_page_history" ELSE "done",
                     !.page_number = site.version,
                     !.numbers = Append(@, site.version)]
              /\ ret' = IF KeepsDeleting(site.version, op.keep_last_versions)
                        THEN ret
                        ELSE [ret EXCEPT !.kind = "return"]
    /\ UNCHANGED <<site, pollerVars, pairVars>>

\* line 668, remove_page_history: lines 629-646; the server does not delete
\* the only version of a page
RemoveOldestVersion(k) ==
    /\ op.method = "remove_page_history_keep_version"
    /\ op.pc = "remove_page_history"
    /\ Len(reqs) <= 2 * MaxHistory
    /\ k # "none"
    /\ k = "ok" => site.version > 1
    /\ reqs' = Append(reqs, Req("DELETE",
                                <<"rest/experimental/content", IdText(op.page_id),
                                  "version", OldestVersion>>,
                                <<>>, None))
    /\ IF k = "HTTPError"
       THEN /\ Throw("HTTPError")
            /\ UNCHANGED site
       ELSE /\ op' = [op EXCEPT !.pc = "get_page_by_id"]
            /\ site' = [site EXCEPT
                   !.version = IF site.renumbers THEN @ - 1 ELSE @]
            /\ UNCHANGED ret
    /\ UNCHANGED <<pollerVars, pairVars>>

NextHistory ==
    \/ \E s \in HistorySites, a \in KeepVersionArgs : CallKeepVersion(s, a)
    \/ \E k \in AnswerKinds : ReadVersion(k)
    \/ \E k \in AnswerKinds : RemoveOldestVersion(k)

\* the call runs on by itself: no step of it waits for ever
SpecHistory == Init /\ [][NextHistory]_vars /\ WF_vars(NextHistory)

(* -------------------- attach_content (lines 443-485) -------------------- *)
AttachmentId == "att7"

NewAttachmentId == "att8"

FileName == "a.png"

\* a page with the attachments it carries
PageWith(id, title, attachments) ==
    [id |-> id, space |-> SpaceKey, title |-> title, attachments |-> attachments]

Attachment(id, name) == [id |-> id, title |-> name]

\* the servers tried: the home page, and perhaps the page titled DocTitle,
\* with or without an attachment named FileName
AttachSites ==
    {HomeId :> PageWith(HomeId, "Home", <<>>)}
        \cup {(HomeId :> PageWith(HomeId, "Home", <<>>))
                  @@ (DocId :> PageWith(DocId, DocTitle, files)) :
                 files \in {<<>>, <<Attachment(AttachmentId, FileName)>>,
                            <<Attachment(AttachmentId, "b.png")>>}}

AttachArgs ==
    [page_id : {None, Some(DocId)}, title : {None, Some(DocTitle), Some("Other")},
     space : {None, Some(SpaceKey)}, name : {FileName}, comment : {None, Some("note")}]

\* line 473
AttachmentPath(id) == <<"rest/api/content", IdText(id), "child", "attachment">>

\* lines 466-472
AttachData ==
    [type |-> "attachment", fileName |-> op.name, contentType |-> "application/binary",
     comment |-> IF Truthy(op.comment) THEN op.comment[1] ELSE "Uploaded " \o op.name,
     minorEdit |-> "true"]

\* the answer to the lookup by file name: the attachments of that name
Named(id, name) ==
    SelectSeq(site[id[1]].attachments, LAMBDA f : f.title = name)

\* an upload that never goes to the data of an attachment
UploadPathNew(path, results) == path

\* lines 476-477: attachments.get('size') and the path it selects
UploadPath(path, results) ==
    IF Len(results) # 0 THEN path \o <<results[1].id, "data">> ELSE path

\* attach_content(content, name, content_type, page_id, title, space, comment)
CallAttachContent(s, a) ==
    /\ op.pc = "idle"
    /\ site' = s
    /\ op' = [method |-> "attach_content",
              pc |-> IF a.page_id = None THEN "get_page_id" ELSE "lookup",
              given_page_id |-> a.page_id, page_id |-> a.page_id,
              title |-> a.title, space |-> a.space, name |-> a.name,
              comment |-> a.comment, looked |-> FALSE, existing |-> <<>>,
              path |-> <<>>]
    /\ UNCHANGED <<reqs, ret, pollerVars, pairVars>>

\* line 463, get_page_id: lines 80-87; lines 481-483 when it gives no id
ResolvePageId(k) ==
    /\ op.method = "attach_content"
    /\ op.pc = "get_page_id"
    /\ reqs' = Append(reqs, GetPageByTitle(op.space, op.title))
    /\ IF k = "HTTPError"
       THEN Throw("HTTPError")
       ELSE IF Truthy(FirstResult(k, op.space, op.title))
            THEN /\ op' = [op EXCEPT
                       !.pc = "lookup",
                       !.page_id = Some(FirstResult(k, op.space, op.title)[1].id)]
                 /\ UNCHANGED ret
            ELSE /\ op' = [op EXCEPT !.pc = "done"]
                 /\ ret' = [ret EXCEPT !.kind = "return", !.value = None,
                                       !.errors = Append(@, CantFind)]
    /\ UNCHANGED <<site, pollerVars, pairVars>>

\* lines 473-477
LookupAttachment(k) ==
    /\ op.method = "attach_content"
    /\ op.pc = "lookup"
    /\ Answers(k, op.page_id)
    /\ reqs' = Append(reqs, Req("GET", AttachmentPath(op.page_id),
                                <<"filename", op.name>>, None))
    /\ CASE k = "HTTPError" -> Throw("HTTPError")
         [] k = "none" -> Throw("AttributeError")
         [] k = "ok" ->
              /\ op' = [op EXCEPT
                     !.pc = "post",
                     !.looked = TRUE,
                     !.existing = Named(op.page_id, op.name),
                     !.path = UploadPath(AttachmentPath(op.page_id),
                                         Named(op.page_id, op.name))]
              /\ UNCHANGED ret
    /\ UNCHANGED <<site, pollerVars, pairVars>>

\* the attachments of the page once the server has taken the upload
Uploaded(files, name) ==
    IF SelectSeq(files, LAMBDA f : f.title = name) # <<>>
    THEN files
    ELSE Append(files, Attachment(NewAttachmentId, name))

\* lines 478-479
PostAttachment(k) ==
    /\ op.method = "attach_content"
    /\ op.pc = "post"
    /\ k # "none"
    /\ reqs' = Append(reqs, Req("POST", op.path, <<>>, Some(AttachData)))
    /\ IF k = "HTTPError"
       THEN /\ Throw("HTTPError")
            /\ UNCHANGED site
       ELSE /\ Give(Some(Uploaded(site[op.page_id[1]].attachments, op.name)))
            /\ site' = [site EXCEPT ![op.page_id[1]].attachments = Uploaded(@, op.name)]
    /\ UNCHANGED <<pollerVars, pairVars>>

NextAttach ==
    \/ \E s \in AttachSites, a \in AttachArgs : CallAttachContent(s, a)
    \/ \E k \in AnswerKinds : ResolvePageId(k)
    \/ \E k \in AnswerKinds : LookupAttachment(k)
    \/ \E k \in AnswerKinds : PostAttachment(k)

SpecAttach == Init /\ [][NextAttach]_vars

(* ------------------- vocabulary of the properties ---------------------- *)
Contains(s, sep) == FindFrom(s, sep, 1) # 0

\* the polled document the poller saw last
LastDoc == last_doc[1]

\* the server's view of a document: whole, and what lines 7 and 8 report
Whole(d) == ~d.garbled /\ d.lines > CompleteIdx

ReportsComplete(d) == Whole(d) /\ d.complete \in {CompleteTrue, Padded(CompleteTrue)}

ReportsSuccess(d) == d.successful \in {SuccessTrue, Padded(SuccessTrue)}

ReportsFailure(d) == d.successful = SuccessFalse

\* positions in a status line: just after the first 'href=&quot;/wiki/', and
\* of the next '&quot' and the next 'href=&quot;/wiki/' from there (0: none)
AfterHref(line) == FindFrom(line, HrefMarker, 1) + Len(HrefMarker)

NextQuot(line) == FindFrom(line, Quot, AfterHref(line))

NextHref(line) == FindFrom(line, HrefMarker, AfterHref(line))

\* the line contains href=&quot;/wiki/P&quot for some P
HasQuotedHref(line) == Contains(line, HrefMarker) /\ NextQuot(line) # 0

\* the text after the first 'href=&quot;/wiki/' up to the next '&quot'
TextToNextQuot(line) == SubSeq(line, AfterHref(line), NextQuot(line) - 1)

\* the text after the first 'href=&quot;/wiki/' up to the next '&quot' or the
\* next 'href=&quot;/wiki/', whichever comes first, or else the end of the line
PathEnd(line) ==
    LET ends == {j \in {NextQuot(line), NextHref(line)} : j # 0}
    IN  IF ends = {} THEN Len(line) + 1
        ELSE CHOOSE j \in ends : \A k \in ends : j <= k

PathIn(line) == SubSeq(line, AfterHref(line), PathEnd(line) - 1)

\* requests that never got a body back
Unanswered == Len(sent) - Len(init_body) - answered

(* ------------------------------ C1 ------------------------------------- *)
\* C1 as stated: a complete and successful document whose line 3 contains
\* href=&quot;/wiki/P&quot makes the poller return exactly the text after
\* 'href=&quot;/wiki/' up to the next '&quot'.
C1_ReturnsTextToNextQuot ==
    (/\ last_doc # None
     /\ ReportsComplete(LastDoc) /\ ReportsSuccess(LastDoc)
     /\ HasQuotedHref(LastDoc.status))
    => (pc = "returned" /\ result = Some(TextToNextQuot(LastDoc.status)))

\* C1 amended: such a document makes the poller return the text after the
\* first 'href=&quot;/wiki/' up to the next '&quot' or the next
\* 'href=&quot;/wiki/', whichever comes first.
C1_ReturnsPath ==
    (/\ last_doc # None
     /\ ReportsComplete(LastDoc) /\ ReportsSuccess(LastDoc)
     /\ HasQuotedHref(LastDoc.status))
    => (pc = "returned" /\ result = Some(PathIn(LastDoc.status)))

C1_Witness ==
    /\ pc = "returned"
    /\ last_doc # None
    /\ ReportsComplete(LastDoc) /\ ReportsSuccess(LastDoc)
    /\ LastDoc.status = HrefMarker \o <<"reports/x.pdf">> \o Quot
    /\ result = Some(<<"reports/x.pdf">>)

(* ------------------------------ C2 ------------------------------------- *)
\* C2: a document reporting isComplete=true and isSuccessful=false makes the
\* poller return None without raising, and no poll request follows it.
C2_FailedExportReturnsNone ==
    (last_doc # None /\ ReportsComplete(LastDoc) /\ ReportsFailure(LastDoc))
    => (/\ pc = "returned" /\ result = None /\ exc = "none"
        /\ Len(PollRequests) = answered)

C2_Witness ==
    /\ last_doc # None /\ ReportsComplete(LastDoc) /\ ReportsFailure(LastDoc)
    /\ pc = "returned" /\ result = None
    /\ answered = 2

(* ------------------------------ C3 ------------------------------------- *)
\* C3: when the first n polls are answered with whole documents reporting
\* isComplete=false and poll n+1 with a complete and successful one (carrying
\* a download path), the poller has issued exactly n+1 poll requests and
\* returns that document's path; and while every answer so far is such a
\* not-complete document the poller has not returned.
C3_PollsUntilComplete ==
    /\ (/\ answered > 0
        /\ running_seen = answered - 1
        /\ ReportsComplete(LastDoc) /\ ReportsSuccess(LastDoc)
        /\ Contains(LastDoc.status, HrefMarker))
       => (/\ pc = "returned"
           /\ Len(PollRequests) = running_seen + 1
           /\ result = Some(PathIn(LastDoc.status)))
    /\ (answered > 0 /\ running_seen = answered)
       => (pc # "returned" /\ Len(PollRequests) >= answered)

C3_Witness ==
    /\ pc = "returned"
    /\ answered = 3 /\ running_seen = 2
    /\ Len(PollRequests) = 3
    /\ ReportsComplete(LastDoc) /\ ReportsSuccess(LastDoc)
    /\ result = Some(<<"reports/x.pdf">>)

(* ------------------------------ C4 ------------------------------------- *)
\* C4: a polled document of fewer than 9 lines, the first or a later one,
\* makes the poller return None; nothing is raised.
C4_ShortDocumentReturnsNone ==
    (last_doc # None /\ ~LastDoc.garbled /\ LastDoc.lines < CompleteIdx + 1)
    => (pc = "returned" /\ result = None /\ exc = "none")

C4_Witness ==
    /\ last_doc # None /\ ~LastDoc.garbled /\ LastDoc.lines = CompleteIdx
    /\ answered = 3 /\ running_seen = 2
    /\ pc = "returned" /\ result = None

(* ------------------------------ C5 ------------------------------------- *)
\* C5: an initiating page (valid text) without the marker
\* name="ajs-taskId" content=" makes the poller return None with no poll
\* request issued and no sleep taken.
C5_NoTaskIdNoPolling ==
    (/\ init_body # None
     /\ DecodesStrict(init_body[1])
     /\ ~Contains(init_body[1], TaskIdMarker))
    => (/\ pc = "returned" /\ result = None /\ exc = "none"
        /\ PollRequests = <<>> /\ sleeps = <<>>)

C5_Witness ==
    /\ init_body = Some(TaskIdEnd \o <<"42">>)
    /\ pc = "returned" /\ result = None
    /\ Len(sent) = 1

(* ------------------------------ C6 ------------------------------------- *)
\* C6 as stated: a run that returns returns a path (not None) exactly when
\* the last polled document was complete and successful.
C6_PathIffCompleteSuccessful ==
    pc = "returned"
    => (result # None
        <=> (/\ last_doc # None
             /\ ReportsComplete(LastDoc) /\ ReportsSuccess(LastDoc)))

\* C6 amended: a run that returns returns a path (not None) exactly when the
\* last polled document was complete and successful and its line 3 contains
\* the marker href=&quot;/wiki/.
C6_PathIffCompleteSuccessfulHref ==
    pc = "returned"
    => (result # None
        <=> (/\ last_doc # None
             /\ ReportsComplete(LastDoc) /\ ReportsSuccess(LastDoc)
             /\ Contains(LastDoc.status, HrefMarker)))

C6_Witness ==
    /\ pc = "returned" /\ result = None
    /\ last_doc # None
    /\ ReportsComplete(LastDoc) /\ ReportsSuccess(LastDoc)
    /\ ~Contains(LastDoc.status, HrefMarker)

(* ------------------------------ C7 ------------------------------------- *)
\* C7: a step in which the poller receives a whole document reporting
\* isComplete=false neither returns nor raises, it leaves the poller in the
\* loop; and the step the poller takes from inside the loop issues a poll
\* request.
C7_RunningKeepsPolling ==
    [][/\ (answered' = answered + 1 /\ StillRunning(last_doc'[1]))
          => (/\ pc' = "poll" /\ long_running_task'
              /\ result' = None /\ exc' = "none"
              /\ error_log' = error_log)
       /\ pc = "poll" => sent' = Append(sent, Request(poll_url[1]))]_vars

C7_Witness ==
    /\ pc = "poll"
    /\ answered = 2 /\ running_seen = 2
    /\ StillRunning(LastDoc)

C9_TransportErrorPropagates ==
    Unanswered > 0
    => (/\ pc = "raised" /\ exc \in TransportErrors
        /\ result = None /\ error_log = <<>>
        /\ Unanswered = 1)

C9_Witness ==
    /\ Unanswered = 1
    /\ answered = 2
    /\ pc = "raised" /\ exc = "HTTPError"

(* ------------------------------ C10 ------------------------------------ *)
\* C10: a run that returns None has logged an error, and a run that returns
\* a path has logged none.
C10_ErrorLoggedIffNone ==
    pc = "returned" => (result = None <=> error_log # <<>>)

C10_Witness ==
    /\ pc = "returned" /\ result = None
    /\ answered = 2
    /\ error_log = <<NotSuccessfulMsg>>

(* ------------------------------ C17 ------------------------------------ *)
\* C17: a polled document reporting isComplete=true with isSuccessful other
\* than true (false, or a value that is neither) ends the run on that poll
\* with the failure result None.
C17_CompleteEndsRun ==
    (last_doc # None /\ ReportsComplete(LastDoc) /\ ~ReportsSuccess(LastDoc))
    => (pc = "returned" /\ result = None)

(* ------------------------------ C18 ------------------------------------ *)
\* C18 as stated: the number of sleeps equals the number of polled documents
\* that reported not complete, and each sleep lasts 5 seconds.
C18_SleepsOnlyWhenRunning ==
    /\ Len(sleeps) = running_seen
    /\ \A i \in 1..Len(sleeps) : sleeps[i] = SleepSeconds

\* the polled documents so far that decoded and split into at least 9 lines
\* (a document that does not is the last one of its run)
WholeSeen ==
    answered - (IF last_doc # None /\ ~Whole(LastDoc) THEN 1 ELSE 0)

\* C18 amended: the poller sleeps 5 seconds once for every polled document
\* that decodes and splits into at least 9 lines, complete or not, before it
\* tests isComplete; a document reporting isComplete=true is resolved after
\* that sleep.
C18_SleepsOncePerWholeDocument ==
    /\ Len(sleeps) = WholeSeen
    /\ \A i \in 1..Len(sleeps) : sleeps[i] = SleepSeconds

C18_Witness ==
    /\ pc = "returned" /\ result # None
    /\ ReportsComplete(LastDoc)
    /\ answered = 2 /\ running_seen = 1
    /\ sleeps = <<SleepSeconds, SleepSeconds>>

(* ------------------------------ C19 ------------------------------------ *)
\* positions in the initiating page: just after the first marker
\* name="ajs-taskId" content=", and of the next '">' and the next marker
\* from there (0: none)
AfterTaskMarker(page) == FindFrom(page, TaskIdMarker, 1) + Len(TaskIdMarker)

NextTaskEnd(page) == FindFrom(page, TaskIdEnd, AfterTaskMarker(page))

NextTaskMarker(page) == FindFrom(page, TaskIdMarker, AfterTaskMarker(page))

\* the page contains the marker and a '">' after it
HasClosedTaskId(page) == Contains(page, TaskIdMarker) /\ NextTaskEnd(page) # 0

\* the text between the first marker and the next '">'
TextToNextTaskEnd(page) ==
    SubSeq(page, AfterTaskMarker(page), NextTaskEnd(page) - 1)

\* the text between the first marker and the next '">' or the next marker,
\* whichever comes first
TaskIdEndPos(page) ==
    IF NextTaskMarker(page) # 0 /\ NextTaskMarker(page) < NextTaskEnd(page)
    THEN NextTaskMarker(page)
    ELSE NextTaskEnd(page)

TaskIdIn(page) == SubSeq(page, AfterTaskMarker(page), TaskIdEndPos(page) - 1)

\* the initiating page decoded and holds a marker followed by '">'
TaskIdPage ==
    /\ init_body # None
    /\ DecodesStrict(init_body[1])
    /\ HasClosedTaskId(init_body[1])

\* C19 as stated: the task identifier is the text of the initiating page
\* between the first marker and the next '">', and every poll request goes to
\* runningtaskxml.action?taskId=<that identifier>.
C19_TaskIdToNextEnd ==
    TaskIdPage
    => (/\ task_id = Some(TextToNextTaskEnd(init_body[1]))
        /\ \A i \in 1..Len(PollRequests) :
               PollRequests[i].url
                   = PollUrlPrefix \o TextToNextTaskEnd(init_body[1]))

\* C19 amended: the task identifier is the text between the first marker and
\* the next '">' or the next marker, whichever comes first; it is set once,
\* and every poll request goes to runningtaskxml.action?taskId=<that
\* identifier>, whatever the poll responses contain.
C19_TaskIdFixed ==
    TaskIdPage
    => (/\ task_id = Some(TaskIdIn(init_body[1]))
        /\ poll_url = Some(PollUrlPrefix \o TaskIdIn(init_body[1]))
        /\ \A i \in 1..Len(PollRequests) :
               PollRequests[i].url = PollUrlPrefix \o TaskIdIn(init_body[1]))

C19_Witness ==
    /\ init_body = Some(TaskIdMarker \o <<"42">> \o TaskIdEnd)
    /\ task_id = Some(<<"42">>)
    /\ Len(PollRequests) = 2
    /\ PollRequests[2].url = <<"runningtaskxml.action?taskId=", "42">>

(* ------------------------------ C20 ------------------------------------ *)
\* C20: while every poll is answered with a whole document reporting
\* isComplete=false, the poller stays in its loop (it never returns or
\* raises) and goes on to issue poll request number k for every k; nothing
\* in the loop limits the number of polls (checked for k up to MaxPolls).
C20_PollsWithoutLimit ==
    /\ [][pc = "poll" => (pc' = "poll" /\ long_running_task')]_vars
    /\ (pc = "poll") ~> (Len(PollRequests) = MaxPolls /\ pc = "poll")

C20_Witness ==
    /\ pc = "poll" /\ long_running_task
    /\ Len(PollRequests) = MaxPolls
    /\ running_seen = MaxPolls

(* ------------------------------ C11 ------------------------------------ *)
RECURSIVE AloneAfter(_, _)
\* what an invocation run alone ends as after the poll answers from the k-th
\* on: the outcome of the first answer that does not continue the loop
AloneAfter(polls, k) ==
    IF k > Len(polls) THEN Continue(<<>>)
    ELSE IF PollOutcomes[polls[k]].kind # "continue" THEN PollOutcomes[polls[k]]
    ELSE AloneAfter(polls, k + 1)

\* the outcome of an invocation run alone against an initiating answer and a
\* sequence of poll answers
Alone(init, polls) ==
    IF InitiateOutcome(init).kind # "continue"
    THEN InitiateOutcome(init)
    ELSE AloneAfter(polls, 1)

\* C11: of two invocations with different task identifiers, interleaved
\* request by request, each sends its poll requests to its own task
\* identifier only and ends as it would when run alone against the answers
\* it received.
C11_InvocationsIndependent ==
    \A c \in Callers :
        calls[c].init # None
        => LET alone == Alone(calls[c].init[1], calls[c].polls)
           IN  /\ \A i \in 2..Len(calls[c].sent) :
                      calls[c].sent[i].url
                          = <<"runningtaskxml.action?taskId=", CallerTaskId[c]>>
               /\ calls[c].sent[1].url = ExportUrl
               /\ (alone.kind = "continue") = (calls[c].pc = "poll")
               /\ (alone.kind = "return") = (calls[c].pc = "returned")
               /\ (alone.kind = "raise") = (calls[c].pc = "raised")
               /\ calls[c].result = alone.value
               /\ calls[c].exc = alone.exc

C11_Witness ==
    /\ calls[1].pc = "returned" /\ calls[1].result # None
    /\ calls[2].pc = "returned" /\ calls[2].result = None
    /\ Len(calls[1].polls) = 2 /\ Len(calls[2].polls) = 2
    /\ calls[1].sent[3].url # calls[2].sent[3].url

(* ------------------ update_page and update_or_create -------------------- *)
\* the requests of the call with a given verb
Sent(verb) == SelectSeq(reqs, LAMBDA r : r.verb = verb)

IsHistory(r) == r.verb = "GET" /\ r.path[Len(r.path)] = "history"

\* a call of update_page, directly or from update_or_create, that got an
\* answer to its read of the storage body
Compared == op.method \in {"update_page", "update_or_create"} /\ op.compared

\* C12: when the storage body of the remote page, normalised, equals the
\* candidate body, update_page sends no PUT and no history request and
\* returns what get_page_by_id fetches; a PUT goes to
\* rest/api/content/{page_id}, and only when the two bodies differ.
C12_SameBodyIsNotPut ==
    Compared
    => /\ op.content = Some(op.body)
          => /\ Sent("PUT") = <<>>
             /\ SelectSeq(reqs, IsHistory) = <<>>
             /\ op.pc = "done"
                => /\ reqs[Len(reqs)] = GetPageById(op.page_id, None)
                   /\ reqs[Len(reqs) - 1] = GetPageById(op.page_id, Some("body.storage"))
                   /\ ret.kind = "return" => ret.value \in {None, Some(site[op.page_id[1]])}
                   /\ ret.kind = "raise" => ret.exc = "HTTPError"
       /\ Sent("PUT") # <<>>
          => /\ op.content # Some(op.body)
             /\ Len(Sent("PUT")) = 1
             /\ Sent("PUT")[1].path = <<"rest/api/content", op.page_id[1]>>

C12_Witness ==
    /\ op.method = "update_page"
    /\ op.pc = "done"
    /\ op.body = <<"a-umlaut">>
    /\ op.content = Some(op.body)
    /\ ret.kind = "return"
    /\ ret.value = Some(site[DocId])
    /\ site[DocId].body = <<"&auml;">>
    /\ Len(reqs) = 2

\* update_or_create has asked whether the page exists and has ended
Decided == op.method = "update_or_create" /\ op.pc = "done" /\ op.lookup # "unasked"

\* the title search of page_exists was answered with a page
LookupFound == op.lookup = "ok" /\ op.existed

\* C13 as stated: if a page of that title exists in the space of the given
\* parent the call sends no create POST, and if none exists it sends exactly
\* one create POST and no PUT.
C13_ExistingPageIsUpdated ==
    Decided
    => /\ op.existed => Sent("POST") = <<>>
       /\ ~op.existed => Len(Sent("POST")) = 1 /\ Sent("PUT") = <<>>

\* C13: if the title search of page_exists returns a page the call takes the
\* update path only (no create POST); if it returns none, or fails with an
\* HTTPError, the call takes the create path only (no PUT, and exactly one
\* create POST unless the representation is rejected before it); no call
\* sends both.
C13_LookupDecidesPath ==
    /\ Decided
       => /\ LookupFound => Sent("POST") = <<>>
          /\ ~LookupFound
             => /\ Sent("PUT") = <<>>
                /\ Len(Sent("POST"))
                       = (IF op.representation \in ValidRepresentations THEN 1 ELSE 0)
    /\ op.method = "update_or_create" => Sent("POST") = <<>> \/ Sent("PUT") = <<>>

C13_Witness ==
    /\ Decided
    /\ op.existed
    /\ op.lookup = "HTTPError"
    /\ Len(Sent("POST")) = 1
    /\ ret.kind = "raise"

(* ------------------------------ remove_page ----------------------------- *)
\* the pages of the DELETE requests, in the order sent
Deleted == [i \in 1..Len(Sent("DELETE")) |-> Sent("DELETE")[i].path[2]]

\* the server before the call
SiteBefore == [site EXCEPT !.present = TreePages]

\* C14: a recursive remove_page that returns has sent one delete for every
\* page of the subtree of the given page, each page after all the pages
\* below it and the given page last; a non-recursive one has sent one delete
\* and has not asked for children.
C14_DeletesWholeSubtree ==
    (op.method = "remove_page" /\ op.pc = "done" /\ ret.kind = "return")
    => IF op.recursive
       THEN /\ {Deleted[i] : i \in DOMAIN Deleted} = Subtree(SiteBefore, op.page_id)
            /\ Len(Deleted) = Cardinality(Subtree(SiteBefore, op.page_id))
            /\ \A i, j \in DOMAIN Deleted :
                   i < j => Deleted[j] \notin Subtree(SiteBefore, Deleted[i])
            /\ Deleted[Len(Deleted)] = op.page_id
       ELSE /\ Deleted = <<op.page_id>>
            /\ Sent("GET") = <<>>

(* ------------------- remove_page_history_keep_version ------------------- *)
KeepVersion == op.method = "remove_page_history_keep_version"

\* C15: remove_page_history_keep_version deletes version 1 only, reads the
\* version number again after each delete, and returns at the first number
\* read that is not above keep_last_versions (with no delete when the first
\* one is not); against a server that lowers the number by one per delete a
\* call that returns has sent max(0, initial - keep_last_versions) deletes,
\* and every call ends.
C15_KeepsLastVersions ==
    /\ [](KeepVersion
          => /\ \A i \in DOMAIN reqs :
                    reqs[i] = IF i % 2 = 1
                              THEN GetPageById(op.page_id, Some("version"))
                              ELSE Req("DELETE",
                                       <<"rest/experimental/content", op.page_id[1],
                                         "version", 1>>, <<>>, None)
             /\ \A i \in DOMAIN op.numbers :
                    (i < Len(op.numbers) \/ op.pc = "remove_page_history")
                        => op.numbers[i] > op.keep_last_versions
             /\ (op.pc = "done" /\ ret.kind = "return")
                    => /\ op.numbers[Len(op.numbers)] <= op.keep_last_versions
                       /\ Len(reqs) = 2 * Len(op.numbers) - 1
                       /\ site.renumbers
                              => Len(Sent("DELETE"))
                                     = (IF op.numbers[1] > op.keep_last_versions
                                        THEN op.numbers[1] - op.keep_last_versions
                                        ELSE 0))
    /\ (KeepVersion /\ site.renumbers) ~> (op.pc = "done")

C15_Witness ==
    /\ KeepVersion
    /\ op.pc = "done"
    /\ ret.kind = "return"
    /\ site.renumbers
    /\ op.numbers = <<4, 3, 2>>
    /\ op.keep_last_versions = 2
    /\ Len(Sent("DELETE")) = 2

(* ----------------------------- attach_content --------------------------- *)
Attaching == op.method = "attach_content"

\* C16: once attach_content has a page id, given or resolved from title and
\* space, and the answer to its lookup by file name, it sends exactly one
\* upload POST: to <attachment id>/data of the attachment found when the
\* lookup reports one, to child/attachment of the page otherwise; when no
\* page id is given and the title search yields none, it sends neither the
\* lookup nor the upload and returns None.
C16_OneUploadToTheRightPath ==
    Attaching
    => /\ Len(Sent("POST")) <= 1
       /\ (op.pc = "done" /\ op.looked)
          => /\ op.page_id # None
             /\ Len(Sent("POST")) = 1
             /\ reqs[Len(reqs)].verb = "POST"
             /\ reqs[Len(reqs) - 1]
                    = Req("GET", <<"rest/api/content", op.page_id[1], "child", "attachment">>,
                          <<"filename", op.name>>, None)
             /\ reqs[Len(reqs)].path
                    = IF op.existing # <<>>
                      THEN <<"rest/api/content", op.page_id[1], "child", "attachment",
                             op.existing[1].id, "data">>
                      ELSE <<"rest/api/content", op.page_id[1], "child", "attachment">>
       /\ (op.pc = "done" /\ op.page_id = None /\ ret.kind = "return")
          => /\ op.given_page_id = None
             /\ reqs = <<GetPageByTitle(op.space, op.title)>>
             /\ ret.value = None
       /\ op.given_page_id # None
          => \A i \in DOMAIN reqs : reqs[i].path # <<"rest/api/content">>

C16_Witness ==
    /\ Attaching
    /\ op.pc = "done"
    /\ ret.kind = "return"
    /\ op.given_page_id = None
    /\ op.page_id = Some(DocId)
    /\ op.existing # <<>>
    /\ reqs[Len(reqs)].path
           = <<"rest/api/content", DocId, "child", "attachment", AttachmentId, "data">>

(* ------------------- a server that finishes the export ------------------ *)
\* polls answered with a status document that decodes
DocAnswers == {a \in PollAnswers : a.error = "none" /\ ~a.doc[1].garbled}

\* those that report isComplete=true with isSuccessful=true or false
CompletingAnswers ==
    {a \in DocAnswers :
        /\ ReportsComplete(a.doc[1])
        /\ ReportsSuccess(a.doc[1]) \/ ReportsFailure(a.doc[1])}

\* the page that starts the export, with a task identifier
StartedAnswer == Answered(TaskIdMarker \o <<"42">> \o TaskIdEnd, None)

\* a pass of the loop while the server may still answer with any document
PollBeforeEnd(a) ==
    /\ Len(PollRequests) < MaxPolls - 1
    /\ PollOnce(a)

\* every request is answered, and the server reports the end of the export
\* at the poll numbered MaxPolls at the latest
NextCompleting ==
    \/ Initiate(StartedAnswer)
    \/ \E a \in DocAnswers : PollBeforeEnd(a)
    \/ \E a \in CompletingAnswers : PollOnce(a)

SpecCompleting == Init /\ [][NextCompleting]_vars /\ WF_vars(NextCompleting)

\* C21: when every request is answered and the server at some poll answers
\* with a document reporting isComplete=true and isSuccessful=true or false,
\* the poller returns (a path or None).
C21_ReturnsOnceComplete ==
    /\ (pc = "poll") ~> (pc = "returned")
    /\ [](pc # "raised")

C21_Witness ==
    /\ pc = "returned"
    /\ answered = MaxPolls
    /\ running_seen = MaxPolls - 1
    /\ LastDoc \in {a.doc[1] : a \in CompletingAnswers}

(* ------------------------------ C22 ------------------------------------ *)
\* the last polled document reports complete and successful, and its line 3
\* has no href=&quot;/wiki/
CompleteWithoutHref ==
    /\ last_doc # None
    /\ ReportsComplete(LastDoc)
    /\ ReportsSuccess(LastDoc)
    /\ ~Contains(LastDoc.status, HrefMarker)

\* C22: when a polled document reports complete and successful and line 3
\* does not contain href=&quot;/wiki/, the poller returns None: it raises
\* nothing, logs the error, and that poll is its last request.
C22_MissingHrefReturnsNone ==
    CompleteWithoutHref
    => /\ pc = "returned"
       /\ result = None
       /\ ~long_running_task
       /\ error_log # <<>>
       /\ Len(PollRequests) = answered
       /\ Len(sent) = answered + 1

C22_Witness ==
    /\ CompleteWithoutHref
    /\ LastDoc.status = <<"Exporting">>
    /\ answered = 2
    /\ Len(sleeps) = 2
    /\ pc = "returned"
    /\ result = None

(* ------------------------------ C23 ------------------------------------ *)
\* C23: an invocation sends the initiating request once, before every poll
\* request; every request carries form_token_headers; and a poll is sent
\* only when the answers to all requests before it have been received and
\* parsed.
C23_OneRequestAtATime ==
    /\ pc # "idle" => sent # <<>> /\ sent[1].url = ExportUrl
    /\ \A i \in 2..Len(sent) :
           /\ sent[i].url # ExportUrl
           /\ poll_url # None /\ sent[i].url = poll_url[1]
    /\ \A i \in DOMAIN sent : sent[i].headers = FormTokenHeaders
    /\ Len(sent) > 1 => init_body # None /\ task_id # None
    /\ pc = "poll" => Len(PollRequests) = answered
    /\ Len(PollRequests) \in {answered, answered + 1}
    /\ Len(PollRequests) = answered + 1 => pc = "raised"

C23_Witness ==
    /\ Len(sent) = MaxPolls + 1
    /\ answered = MaxPolls
    /\ pc = "returned"
    /\ result # None

(* ------------------------------ C24 ------------------------------------ *)
\* a call of update_page that the server answered throughout: the comparison
\* read a page, and the call returned a page or refused the representation
Served(content, outcome) ==
    /\ content # None
    /\ \/ outcome.kind = "return" /\ outcome.value # None
       \/ outcome.kind = "raise" /\ outcome.exc = "ValueError"

\* the second of two calls of update_page has ended, and the server answered
\* both throughout
BothReturned ==
    /\ op.method = "update_page"
    /\ op.first # None
    /\ op.pc = "done"
    /\ Served(op.content, ret)
    /\ Served(op.first[1].content, op.first[1].ret)

\* C24 without its premise: any body, normalised or not
C24_TwiceIsOnceForAnyBody ==
    BothReturned
    => /\ Len(Sent("PUT")) <= 1
       /\ site[DocId].body = op.first[1].page.body
       /\ site[DocId].version = op.first[1].page.version

\* C24: for a body the normaliser leaves as it is, and a server that answers
\* every request and stores the body of an accepted PUT under the version
\* number the PUT carries, two calls of update_page in a row with the same
\* arguments send at most one PUT in all, none of it in the second call, and
\* the body and version on the server after the second call are those after
\* the first.
C24_TwiceIsOnce ==
    (BothReturned /\ SymbolNormalizer(op.body) = op.body)
    => /\ Len(Sent("PUT")) <= 1
       /\ Sent("PUT") = SelectSeq(op.first[1].reqs, LAMBDA r : r.verb = "PUT")
       /\ site[DocId].body = op.first[1].page.body
       /\ site[DocId].version = op.first[1].page.version

C24_Witness ==
    /\ BothReturned
    /\ op.body = <<"a-umlaut">>
    /\ Len(Sent("PUT")) = 1
    /\ Len(reqs) = 5
    /\ ret.value = Some(site[DocId])
    /\ site[DocId].version = MaxVersion + 1

(* ------------------------------ C25 ------------------------------------ *)
\* the step sends a PUT
SendsPut == Len(reqs') = Len(reqs) + 1 /\ reqs'[Len(reqs')].verb = "PUT"

Supported == {"editor", "export_view", "view", "storage", "wiki"}

Updating == op.method \in {"update_page", "update_or_create"}

\* C26: a call of update_page whose history read ends it without an HTTPError
\* returns None, logs that the page can't be found, has sent no PUT and
\* leaves the server's pages as they are; a call with a representation
\* outside the supported ones never sends a PUT and never changes the
\* server's pages, and where it comes to build the data of the PUT it raises
\* ValueError without sending a request.
C26_FailedUpdateLeavesPage ==
    [][/\ (Updating /\ op.pc = "history" /\ op'.pc = "done"
                    /\ ~(ret'.kind = "raise" /\ ret'.exc = "HTTPError"))
          => /\ op.compared /\ op.content # Some(op.body)
             /\ ret' = [ret EXCEPT !.kind = "return", !.value = None,
                                   !.errors = Append(ret.errors, CantFind)]
             /\ SelectSeq(reqs', LAMBDA r : r.verb = "PUT") = <<>>
             /\ site' = site
       /\ (Updating /\ op.representation \notin Supported)
          => /\ SelectSeq(reqs', LAMBDA r : r.verb \in {"PUT", "POST"}) = <<>>
             /\ site' = site
             /\ op.pc = "put"
                => /\ ret'.kind = "raise" /\ ret'.exc = "ValueError"
                   /\ reqs' = reqs
                   /\ op'.pc = "done"
      ]_vars

C26_Witness ==
    /\ op.method = "update_page"
    /\ op.pc = "done"
    /\ op.compared /\ op.content = Some(<<"text">>) /\ op.body = <<"a-umlaut">>
    /\ IsHistory(reqs[Len(reqs)])
    /\ ret = [kind |-> "return", value |-> None, exc |-> "none",
              errors |-> <<CantFind>>]
    /\ Sent("PUT") = <<>>

(* ------------------------------ C27 ------------------------------------ *)
\* the parent of a page on the server: the last of its ancestors
ParentOf(id) == site[id].ancestors[Len(site[id].ancestors)]

\* C27: a PUT sent by update_or_create goes to the page found by title in
\* the space of the caller's parent_id, after the parent of that page was
\* read, and names that parent as the only ancestor, whatever parent_id the
\* caller gave; the PUT, once accepted, leaves the ancestors of the page as
\* they were.
C27_UpdateKeepsParent ==
    [][(SendsPut /\ op.method = "update_or_create") =>
          LET data == reqs'[Len(reqs')].data[1] IN
          /\ LookupFound
          /\ site[data.id].title = op.title
          /\ site[data.id].space = site[op.given_parent[1]].space
          /\ \E i \in 1..Len(reqs) :
                 reqs[i] = GetPageById(Some(data.id), Some("ancestors"))
          /\ site[data.id].ancestors # <<>>
          /\ data.ancestors = Some([type |-> "page", id |-> ParentOf(data.id)])
          /\ site'[data.id].ancestors = site[data.id].ancestors
          /\ ParentOf(data.id) # op.given_parent[1]
             => data.ancestors[1].id # op.given_parent[1]
      ]_vars

C27_Witness ==
    /\ op.method = "update_or_create"
    /\ op.pc = "done"
    /\ ret.kind = "return"
    /\ op.given_parent = Some(HomeId)
    /\ Len(Sent("PUT")) = 1
    /\ Sent("PUT")[1].data[1].ancestors = Some([type |-> "page", id |-> GuideId])
    /\ site[DocId].ancestors = <<HomeId, GuideId>>
    /\ site[DocId].version = MaxVersion + 1

(* ------------------------------ C28 ------------------------------------ *)
ExportingPdf == op.method = "get_page_as_pdf"

\* C28: on cloud, get_page_as_pdf sends its download GET only once the
\* poller has returned, to the url the poller returned, None included, and a
\* call that ended after the poller returned has sent it; off cloud the call
\* sends one GET, to the export url of the page, and the poller sends nothing.
C28_DownloadFollowsPoller ==
    ExportingPdf
    => IF op.api_version = "cloud"
       THEN /\ reqs # <<>> => pc = "returned" /\ reqs = <<Request(result)>>
            /\ (op.pc = "done" /\ pc = "returned") => Len(reqs) = 1
            /\ op.pc = "done" => pc \in {"returned", "raised"}
            /\ pc = "raised" => reqs = <<>>
            /\ sent # <<>> => sent[1] = Request(ExportUrl)
       ELSE /\ sent = <<>> /\ pc = "idle"
            /\ reqs \in {<<>>, <<Request(Some(ExportUrl))>>}
            /\ op.pc = "done" <=> reqs # <<>>

C28_Witness ==
    /\ ExportingPdf
    /\ op.api_version = "cloud"
    /\ op.pc = "done"
    /\ pc = "returned"
    /\ result = None
    /\ error_log # <<>>
    /\ reqs = <<Request(None)>>
    /\ Len(sent) = MaxPolls + 1

====
